---- MODULE Spec2Model ----
(***************************************************************************)
(* The counter registry of contract/src/lib.rs (a NEAR contract): a 32     *)
(* byte seed that is rehashed with host entropy before every random draw,  *)
(* a map from counter id to an i32 value and a map from counter id to its  *)
(* owner.                                                                  *)
(*                                                                         *)
(* Every method is a pure operator from (contract state, host context,     *)
(* arguments) to an outcome [st, err, val]; an action applies one method   *)
(* to the state variables.  env::panic and Rust panics abort the call: the *)
(* host discards the writes of a failed call, so the outcome of a panic    *)
(* carries the state the call started from.                                *)
(*                                                                         *)
(* SHA-256 and the ChaCha20 key stream are scaled-down stand-ins (Mix,     *)
(* Word): deterministic, sensitive to every input byte and to byte order,  *)
(* free of collisions on the inputs explored (the cryptographic strength   *)
(* the design assumes), and with the boundary words of the 32 bit range in *)
(* the key stream.  Byte layout, stream positions, rejection sampling and  *)
(* i32 arithmetic follow the code.                                         *)
(***************************************************************************)
EXTENDS Integers, Sequences, FiniteSets, TLC

\* ---------------------------------------------------------------- bounds
\* Successful state-changing calls (new included) explored in one run.
MaxCalls == 3

\* ------------------------------------------------------ program constants
\* seed: [u8; 32]
SeedLen == 32
\* let mut id_buf = [0u8; 16]
IdLen == 16
\* rng.gen_range(0i32..256): exclusive upper end of the delta
RangeEnd == 256
\* counters: UnorderedMap<String, i32>
MaxI32 == 2147483647
MinI32 == (-2147483647) - 1

ERR_COUNTER_NOT_FOUND == "ERR_COUNTER_NOT_FOUND"
ERR_CALLER_NOT_OWNER == "ERR_CALLER_NOT_OWNER"
\* near_bindgen: #[init] on a contract whose state exists
ERR_ALREADY_INITIALIZED == "The contract has already been initialized"
\* PanicOnDefault: a method of a contract whose state does not exist
ERR_NOT_INITIALIZED == "The contract is not initialized"
\* Rust arithmetic with overflow checks
ERR_ADD_OVERFLOW == "attempt to add with overflow"
ERR_SUB_OVERFLOW == "attempt to subtract with overflow"

\* ------------------------------------------------------ host environment
Accounts == {"alice.testnet", "bob.testnet"}

\* predecessor_account_id.as_bytes(): the UTF-8 bytes of the account name.
as_bytes(account) ==
    CASE account = "alice.testnet" ->
           <<97, 108, 105, 99, 101, 46, 116, 101, 115, 116, 110, 101, 116>>
      [] account = "bob.testnet" ->
           <<98, 111, 98, 46, 116, 101, 115, 116, 110, 101, 116>>

\* A block fixes env::block_index(), env::random_seed() and the timestamp.
Blocks ==
    { [block_index |-> 0, random_seed |-> <<0, 1, 2>>, block_timestamp |-> 0],
      [block_index |-> 1, random_seed |-> <<7, 7>>, block_timestamp |-> 19] }

\* VMContext of a call by caller in block; the transaction is signed by
\* bob.testnet, as in the tests.
Context(caller, block) ==
    [ predecessor_account_id |-> caller,
      random_seed |-> block.random_seed,
      block_index |-> block.block_index,
      signer_account_id |-> "bob.testnet",
      block_timestamp |-> block.block_timestamp ]

\* ------------------------------------------------------------ primitives
RECURSIVE to_be_bytes_n(_, _)
to_be_bytes_n(n, len) ==
    IF len = 0 THEN <<>>
    ELSE Append(to_be_bytes_n(n \div 256, len - 1), n % 256)

\* u64::to_be_bytes: eight bytes, most significant first.
to_be_bytes(n) == to_be_bytes_n(n, 8)

\* The stand-in compression function: two chaining values into one.
Mix(a, b) == (a * 255 + b * 251 + 7) % 4194301

\* The chaining value of data[lo..hi], hashed as a binary tree over the
\* byte positions; every byte is weighted by its position.
RECURSIVE Compress(_, _, _)
Compress(data, lo, hi) ==
    IF lo > hi THEN 2166136
    ELSE IF lo = hi THEN (data[lo] + 1) * (2 * lo + 1)
    ELSE Mix(Compress(data, lo, (lo + hi) \div 2),
             Compress(data, ((lo + hi) \div 2) + 1, hi))

\* env::sha256(data): a 32 byte digest of the whole byte string.
sha256(data) ==
    LET h == Mix(Compress(data, 1, Len(data)), Len(data))
        digit == <<h % 256, (h \div 256) % 256, (h \div 65536) % 256>>
    IN  [j \in 1..SeedLen |-> (digit[((j - 1) % 3) + 1] + ((j - 1) \div 3)) % 256]

\* Little-endian words the stand-in key stream is made of: the boundary
\* words of the 32 bit range and the words of the reference test vectors.
Sigma ==
    << <<69, 149, 121, 88>>,      \* 0x58799545 =  1484363077
       <<255, 255, 255, 127>>,    \* 0x7fffffff =  i32::MAX
       <<87, 145, 119, 173>>,     \* 0xad779157, top byte 173
       <<0, 0, 0, 128>>,          \* 0x80000000 =  i32::MIN
       <<0, 0, 0, 0>>,            \* 0
       <<255, 255, 127, 255>>,    \* 0xff7fffff, top byte 255
       <<156, 255, 255, 127>>,    \* 0x7fffff9c =  i32::MAX - 99
       <<100, 0, 0, 128>> >>      \* 0x80000064 =  i32::MIN + 100

\* Word i of the key stream of ChaCha20Rng::from_seed(key), as 4 bytes.
\* Words 1..3 carry key material, so the first 16 bytes identify the key.
Word(key, i) ==
    IF i \in 1..3 THEN SubSeq(key, 4 * i - 3, 4 * i)
    ELSE Sigma[((key[1] + 256 * key[2] + 65536 * key[3] + i) % Len(Sigma)) + 1]

\* ChaCha20Rng::from_seed: the stream starts at position zero.
from_seed(seed) == [key |-> seed, index |-> 0]

RECURSIVE fill_words(_, _, _)
fill_words(key, i, n) ==
    IF n = 0 THEN <<>> ELSE Word(key, i) \o fill_words(key, i + 1, n - 1)

\* rng.fill(&mut id_buf): the next IdLen bytes of the stream.
fill(rng) ==
    [ val |-> fill_words(rng.key, rng.index, IdLen \div 4),
      rng |-> [rng EXCEPT !.index = @ + IdLen \div 4] ]

\* gen that keeps the top byte of the word, a value in 0..255.
gen_small(rng) ==
    [ val |-> Word(rng.key, rng.index)[4],
      rng |-> [rng EXCEPT !.index = @ + 1] ]

\* rng.gen::<i32>(): the next word, read as a two's complement i32.
gen(rng) ==
    LET w == Word(rng.key, rng.index)
    IN  [ val |-> w[1] + 256 * w[2] + 65536 * w[3]
                    + 16777216 * (IF w[4] >= 128 THEN w[4] - 256 ELSE w[4]),
          rng |-> [rng EXCEPT !.index = @ + 1] ]

\* rng.gen_range(0i32..256): widening multiply of a word v by the range 256
\* gives hi = v >> 24 and lo = (v << 8) mod 2^32; the sample is accepted
\* when lo <= (256 << 23) - 1, that is when bit 23 of v is clear, and the
\* next word is drawn otherwise.
\* gen_range that draws a whole i32, as rng.gen() does.
gen_range_unbounded(rng) == gen(rng)

RECURSIVE gen_range(_)
gen_range(rng) ==
    LET w == Word(rng.key, rng.index)
        next == [rng EXCEPT !.index = @ + 1]
    IN  IF w[3] < RangeEnd \div 2 THEN [val |-> w[4], rng |-> next]
        ELSE gen_range(next)

HexDigit ==
    <<"0", "1", "2", "3", "4", "5", "6", "7",
      "8", "9", "a", "b", "c", "d", "e", "f">>

RECURSIVE simple_to_string(_)
\* Uuid::from_slice(bytes).simple().to_string(): two lowercase hex digits
\* per byte, in order, no separators.
simple_to_string(bytes) ==
    IF bytes = <<>> THEN ""
    ELSE HexDigit[(Head(bytes) \div 16) + 1] \o HexDigit[(Head(bytes) % 16) + 1]
           \o simple_to_string(Tail(bytes))

\* a + b on i32: a build with overflow checks panics when the sum leaves
\* the i32 range, one without wraps it modulo 2^32.
add_i32(a, b, checks) ==
    IF b >= 0 /\ a > MaxI32 - b
    THEN IF checks THEN [err |-> ERR_ADD_OVERFLOW, val |-> 0]
         ELSE [err |-> "", val |-> (a - MaxI32 - 1) + (b + MinI32)]
    ELSE IF b < 0 /\ a < MinI32 - b
    THEN IF checks THEN [err |-> ERR_ADD_OVERFLOW, val |-> 0]
         ELSE [err |-> "", val |-> ((a - MinI32) + (b + MaxI32)) + 1]
    ELSE [err |-> "", val |-> a + b]

\* a - b on i32.
sub_i32(a, b, checks) ==
    IF b >= 0 /\ a < MinI32 + b
    THEN IF checks THEN [err |-> ERR_SUB_OVERFLOW, val |-> 0]
         ELSE [err |-> "", val |-> ((a - MinI32) + (MaxI32 - b)) + 1]
    ELSE IF b < 0 /\ a > MaxI32 + b
    THEN IF checks THEN [err |-> ERR_SUB_OVERFLOW, val |-> 0]
         ELSE [err |-> "", val |-> (a - MaxI32 - 1) + (MinI32 - b)]
    ELSE [err |-> "", val |-> a - b]

\* UnorderedMap::insert: add the key or overwrite its value.
insert(map, key, value) ==
    [k \in (DOMAIN map) \cup {key} |-> IF k = key THEN value ELSE map[k]]

\* ------------------------------------------------------- contract state
VARIABLES
    seed,            \* Contract.seed
    counters,        \* Contract.counters
    owners,          \* Contract.owners
    initialized,     \* whether the contract state exists in storage
    overflow_checks, \* whether the build traps on integer overflow
    call,            \* the last call: method, environment, argument, outcome
    pre,             \* the contract state the last call started from
    history,         \* the successful state-changing calls so far
    replica          \* a second contract, fed the same calls

vars ==
    <<seed, counters, owners, initialized, overflow_checks,
      call, pre, history, replica>>

\* The contract as one value.
Contract == [ seed |-> seed, counters |-> counters, owners |-> owners,
              initialized |-> initialized ]

\* No contract state in storage.
NoState ==
    [ seed |-> [j \in 1..SeedLen |-> 0], counters |-> <<>>, owners |-> <<>>,
      initialized |-> FALSE ]

Ok(st, val) == [st |-> st, err |-> "", val |-> val]
Panic(st, msg) == [st |-> st, err |-> msg, val |-> "()"]

\* ---------------------------------------------------------- the methods
\* new without the guard of #[init], as under #[init(ignore_state)].
new_ignore_state(st, ctx) ==
    Ok([ seed |-> sha256(ctx.random_seed), counters |-> <<>>,
         owners |-> <<>>, initialized |-> TRUE ], "()")

\* #[init] pub fn new() -> Self
new(st, ctx) ==
    IF st.initialized THEN Panic(st, ERR_ALREADY_INITIALIZED)
    ELSE Ok([ seed |-> sha256(ctx.random_seed), counters |-> <<>>,
              owners |-> <<>>, initialized |-> TRUE ], "()")

\* _add_entropy that also mixes in the block timestamp.
_add_entropy_timestamp(st, ctx) ==
    [st EXCEPT !.seed =
        sha256(st.seed \o ctx.random_seed \o to_be_bytes(ctx.block_index)
                 \o to_be_bytes(ctx.block_timestamp)
                 \o as_bytes(ctx.predecessor_account_id))]

\* _add_entropy that hashes the fresh inputs without the current seed.
_add_entropy_fresh_only(st, ctx) ==
    [st EXCEPT !.seed =
        sha256(ctx.random_seed \o to_be_bytes(ctx.block_index)
                 \o as_bytes(ctx.predecessor_account_id))]

\* _add_entropy with the round counter and the weak seed in swapped order.
_add_entropy_swapped(st, ctx) ==
    [st EXCEPT !.seed =
        sha256(st.seed \o to_be_bytes(ctx.block_index) \o ctx.random_seed
                 \o as_bytes(ctx.predecessor_account_id))]

\* fn _add_entropy(&mut self)
_add_entropy(st, ctx) ==
    [st EXCEPT !.seed =
        sha256(st.seed \o ctx.random_seed \o to_be_bytes(ctx.block_index)
                 \o as_bytes(ctx.predecessor_account_id))]

\* _get_caller that takes the signer of the transaction for the caller.
_get_caller_signer(ctx) == ctx.signer_account_id

\* fn _get_caller(&self) -> ValidAccountId
_get_caller(ctx) == ctx.predecessor_account_id

\* _get_counter with unwrap_or(0) for unwrap_or_else(panic).
_get_counter_default(st, id) ==
    IF id \in DOMAIN st.counters THEN [err |-> "", val |-> st.counters[id]]
    ELSE [err |-> "", val |-> 0]

\* fn _get_counter(&self, id) -> i32
_get_counter(st, id) ==
    IF id \in DOMAIN st.counters THEN [err |-> "", val |-> st.counters[id]]
    ELSE [err |-> ERR_COUNTER_NOT_FOUND, val |-> "()"]

\* fn _get_owner(&self, id) -> ValidAccountId
_get_owner(st, id) ==
    IF id \in DOMAIN st.owners THEN [err |-> "", val |-> st.owners[id]]
    ELSE [err |-> ERR_COUNTER_NOT_FOUND, val |-> "()"]

\* _check_owner that looks the owner up and never compares it.
_check_owner_lookup_only(st, ctx, id) == _get_owner(st, id).err

\* fn _check_owner(&self, id)
_check_owner(st, ctx, id) ==
    LET caller == ctx.predecessor_account_id
        owner == _get_owner(st, id)
    IN  IF owner.err # "" THEN owner.err
        ELSE IF caller # owner.val THEN ERR_CALLER_NOT_OWNER
        ELSE ""

\* get_counter that stirs the seed on its way.
get_counter_reseed(st, id) ==
    IF ~st.initialized THEN Panic(st, ERR_NOT_INITIALIZED)
    ELSE LET r == _get_counter(st, id)
         IN  IF r.err # "" THEN Panic(st, r.err)
             ELSE Ok([st EXCEPT !.seed = sha256(st.seed)], r.val)

\* pub fn get_counter(&self, id) -> i32
get_counter(st, id) ==
    IF ~st.initialized THEN Panic(st, ERR_NOT_INITIALIZED)
    ELSE LET r == _get_counter(st, id)
         IN  IF r.err # "" THEN Panic(st, r.err) ELSE Ok(st, r.val)

\* pub fn get_owner(&self, id) -> ValidAccountId
get_owner(st, id) ==
    IF ~st.initialized THEN Panic(st, ERR_NOT_INITIALIZED)
    ELSE LET r == _get_owner(st, id)
         IN  IF r.err # "" THEN Panic(st, r.err) ELSE Ok(st, r.val)

\* create_counter that builds its maps anew, as new does.
create_counter_reset(st, ctx) ==
    IF ~st.initialized THEN Panic(st, ERR_NOT_INITIALIZED)
    ELSE LET caller == _get_caller(ctx)
             st1 == _add_entropy(st, ctx)
             id_buf == fill(from_seed(st1.seed))
             id == simple_to_string(id_buf.val)
             count == gen(id_buf.rng)
         IN  Ok([st1 EXCEPT !.counters = insert(<<>>, id, count.val),
                            !.owners = insert(<<>>, id, caller)], id)

\* create_counter that stores the value and no owner.
create_counter_unowned(st, ctx) ==
    IF ~st.initialized THEN Panic(st, ERR_NOT_INITIALIZED)
    ELSE LET st1 == _add_entropy(st, ctx)
             id_buf == fill(from_seed(st1.seed))
             id == simple_to_string(id_buf.val)
             count == gen(id_buf.rng)
         IN  Ok([st1 EXCEPT !.counters = insert(@, id, count.val)], id)

\* pub fn create_counter(&mut self) -> String
create_counter(st, ctx) ==
    IF ~st.initialized THEN Panic(st, ERR_NOT_INITIALIZED)
    ELSE LET caller == _get_caller(ctx)
             st1 == _add_entropy(st, ctx)
             id_buf == fill(from_seed(st1.seed))
             id == simple_to_string(id_buf.val)
             count == gen(id_buf.rng)
         IN  Ok([st1 EXCEPT !.counters = insert(@, id, count.val),
                            !.owners = insert(@, id, caller)], id)

\* inc_counter that adds entropy before it checks the owner and reports a
\* failed check to the caller without aborting the call.
inc_counter_reseed_first(st, ctx, id, checks) ==
    IF ~st.initialized THEN Panic(st, ERR_NOT_INITIALIZED)
    ELSE LET st1 == _add_entropy(st, ctx)
             rng == from_seed(st1.seed)
             count == _get_counter(st1, id)
             inc == gen_range(rng)
         IN  IF _check_owner(st1, ctx, id) # ""
             THEN [st |-> st1, err |-> _check_owner(st1, ctx, id), val |-> "()"]
             ELSE IF count.err # "" THEN Panic(st, count.err)
             ELSE LET sum == add_i32(count.val, inc.val, checks)
                  IN  IF sum.err # "" THEN Panic(st, sum.err)
                      ELSE Ok([st1 EXCEPT !.counters = insert(@, id, sum.val)], "()")

\* inc_counter whose overflow panic leaves the writes made before it in
\* place, as on a host that commits the state of a failed call.
inc_counter_partial(st, ctx, id, checks) ==
    IF ~st.initialized THEN Panic(st, ERR_NOT_INITIALIZED)
    ELSE IF _check_owner(st, ctx, id) # "" THEN Panic(st, _check_owner(st, ctx, id))
    ELSE LET st1 == _add_entropy(st, ctx)
             rng == from_seed(st1.seed)
             count == _get_counter(st1, id)
             inc == gen_range(rng)
         IN  IF count.err # "" THEN Panic(st, count.err)
             ELSE LET sum == add_i32(count.val, inc.val, checks)
                  IN  IF sum.err # "" THEN Panic(st1, sum.err)
                      ELSE Ok([st1 EXCEPT !.counters = insert(@, id, sum.val)], "()")

\* pub fn inc_counter(&mut self, id)
inc_counter(st, ctx, id, checks) ==
    IF ~st.initialized THEN Panic(st, ERR_NOT_INITIALIZED)
    ELSE IF _check_owner(st, ctx, id) # "" THEN Panic(st, _check_owner(st, ctx, id))
    ELSE LET st1 == _add_entropy(st, ctx)
             rng == from_seed(st1.seed)
             count == _get_counter(st1, id)
             inc == gen_range(rng)
         IN  IF count.err # "" THEN Panic(st, count.err)
             ELSE LET sum == add_i32(count.val, inc.val, checks)
                  IN  IF sum.err # "" THEN Panic(st, sum.err)
                      ELSE Ok([st1 EXCEPT !.counters = insert(@, id, sum.val)], "()")

\* dec_counter that also records the signer of the transaction as owner.
dec_counter_claiming(st, ctx, id, checks) ==
    IF ~st.initialized THEN Panic(st, ERR_NOT_INITIALIZED)
    ELSE IF _check_owner(st, ctx, id) # "" THEN Panic(st, _check_owner(st, ctx, id))
    ELSE LET st1 == _add_entropy(st, ctx)
             rng == from_seed(st1.seed)
             count == _get_counter(st1, id)
             dec == gen_range(rng)
         IN  IF count.err # "" THEN Panic(st, count.err)
             ELSE LET diff == sub_i32(count.val, dec.val, checks)
                  IN  IF diff.err # "" THEN Panic(st, diff.err)
                      ELSE Ok([st1 EXCEPT
                                 !.counters = insert(@, id, diff.val),
                                 !.owners = insert(@, id, ctx.signer_account_id)],
                              "()")

\* pub fn dec_counter(&mut self, id)
dec_counter(st, ctx, id, checks) ==
    IF ~st.initialized THEN Panic(st, ERR_NOT_INITIALIZED)
    ELSE IF _check_owner(st, ctx, id) # "" THEN Panic(st, _check_owner(st, ctx, id))
    ELSE LET st1 == _add_entropy(st, ctx)
             rng == from_seed(st1.seed)
             count == _get_counter(st1, id)
             dec == gen_range(rng)
         IN  IF count.err # "" THEN Panic(st, count.err)
             ELSE LET diff == sub_i32(count.val, dec.val, checks)
                  IN  IF diff.err # "" THEN Panic(st, diff.err)
                      ELSE Ok([st1 EXCEPT !.counters = insert(@, id, diff.val)], "()")

\* ------------------------------------------------------------- the calls
NoId == ""
NonexistentId == "nonexistent"

\* The context of the reference tests: alice.testnet on block 0.
TestContext == Context("alice.testnet", CHOOSE b \in Blocks : b.block_index = 0)

\* The identifier the reference test's create_counter returns: stored in
\* some runs, never returned in others.
TestId == create_counter(new(NoState, TestContext).st, TestContext).val

\* Identifiers a caller may pass: every stored one, and two others.
Ids == (DOMAIN counters) \cup (DOMAIN owners) \cup {NonexistentId, TestId}

Contexts == {Context(c, b) : c \in Accounts, b \in Blocks}

\* The context the replica sees when the primary sees ctx: the same caller,
\* weak seed and block index, other values in the fields the contract does
\* not read.
Other(ctx) ==
    [ctx EXCEPT !.signer_account_id = "alice.testnet",
                !.block_timestamp = @ + 1]

\* The methods that take &self.
Views == {"get_counter", "get_owner"}

\* The record of a call and its outcome; after_read tells whether a call of
\* a &mut self method or of new that returned came right after a view call.
Record(op, ctx, id, r) ==
    [ op |-> op, predecessor_account_id |-> ctx.predecessor_account_id,
      random_seed |-> ctx.random_seed, block_index |-> ctx.block_index,
      id |-> id, err |-> r.err, val |-> r.val,
      after_read |-> op \notin Views /\ r.err = "" /\ call.op \in Views ]

\* The entry a successful state-changing call leaves in the history: the
\* counter it created or changed, and that counter's value after the call.
Entry(op, ctx, id, r) ==
    LET target == IF op = "create_counter" THEN r.val ELSE id
    IN  [ op |-> op, predecessor_account_id |-> ctx.predecessor_account_id,
          random_seed |-> ctx.random_seed, block_index |-> ctx.block_index,
          id |-> target,
          value |-> IF op = "new" THEN 0 ELSE r.st.counters[target] ]

\* The host runs one call to completion: the primary contract takes outcome
\* r, the replica outcome r2 of the same call.  Block indices never decrease.
Run(op, ctx, id, r, r2) ==
    /\ ctx.block_index >= call.block_index
    /\ (r.err # "" \/ r.st = Contract \/ Len(history) < MaxCalls)
    /\ seed' = r.st.seed
    /\ counters' = r.st.counters
    /\ owners' = r.st.owners
    /\ initialized' = r.st.initialized
    /\ pre' = Contract
    /\ call' = Record(op, ctx, id, r)
    /\ history' = IF r.err = "" /\ r.st # Contract
                  THEN Append(history, Entry(op, ctx, id, r)) ELSE history
    /\ replica' = [st |-> r2.st, err |-> r2.err, val |-> r2.val]
    /\ UNCHANGED overflow_checks

\* A view call has no caller; it runs on the block of the last call.
ViewContext ==
    [TestContext EXCEPT !.predecessor_account_id = "",
                        !.random_seed = call.random_seed,
                        !.block_index = call.block_index]

Init ==
    /\ seed = NoState.seed
    /\ counters = NoState.counters
    /\ owners = NoState.owners
    /\ initialized = FALSE
    /\ overflow_checks \in BOOLEAN
    /\ call = [ op |-> "deploy", predecessor_account_id |-> "", random_seed |-> <<>>,
                block_index |-> 0, id |-> NoId, err |-> "", val |-> "()",
                after_read |-> FALSE ]
    /\ pre = NoState
    /\ history = <<>>
    /\ replica = [st |-> NoState, err |-> "", val |-> "()"]

New ==
    \E ctx \in Contexts :
        \E r \in {new(Contract, ctx)}, r2 \in {new(replica.st, Other(ctx))} :
            Run("new", ctx, NoId, r, r2)

GetCounter ==
    \E id \in Ids :
        \E r \in {get_counter(Contract, id)}, r2 \in {get_counter(replica.st, id)} :
            Run("get_counter", ViewContext, id, r, r2)

GetOwner ==
    \E id \in Ids :
        \E r \in {get_owner(Contract, id)}, r2 \in {get_owner(replica.st, id)} :
            Run("get_owner", ViewContext, id, r, r2)

CreateCounter ==
    \E ctx \in Contexts :
        \E r \in {create_counter(Contract, ctx)},
           r2 \in {create_counter(replica.st, Other(ctx))} :
            Run("create_counter", ctx, NoId, r, r2)

IncCounter ==
    \E ctx \in Contexts, id \in Ids :
        \E r \in {inc_counter(Contract, ctx, id, overflow_checks)},
           r2 \in {inc_counter(replica.st, Other(ctx), id, overflow_checks)} :
            Run("inc_counter", ctx, id, r, r2)

DecCounter ==
    \E ctx \in Contexts, id \in Ids :
        \E r \in {dec_counter(Contract, ctx, id, overflow_checks)},
           r2 \in {dec_counter(replica.st, Other(ctx), id, overflow_checks)} :
            Run("dec_counter", ctx, id, r, r2)

Next ==
    \/ New
    \/ GetCounter
    \/ GetOwner
    \/ CreateCounter
    \/ IncCounter
    \/ DecCounter

Spec == Init /\ [][Next]_vars

\* ---------------------------------------------------------------- claims
Mutators == {"inc_counter", "dec_counter"}

\* The last call was op and returned normally.
Succeeded(op) == call.op = op /\ call.err = ""

\* The positions of the create_counter calls in the history.
Creates == {i \in 1..Len(history) : history[i].op = "create_counter"}

\* The identifiers create_counter has returned so far.
CreatedIds == {history[i].id : i \in Creates}

\* C1: inc_counter(id) and dec_counter(id) on a stored id by a caller who is
\* not its stored owner fail with ERR_CALLER_NOT_OWNER, and the counter has
\* the value it had before the call.
C1_NotOwnerRejected ==
    ( /\ call.op \in Mutators
      /\ call.id \in DOMAIN pre.owners
      /\ call.predecessor_account_id # pre.owners[call.id] )
    => /\ call.err = ERR_CALLER_NOT_OWNER
       /\ call.id \in DOMAIN counters
       /\ counters[call.id] = pre.counters[call.id]

\* A counter of alice.testnet was there and bob.testnet was turned away.
C1_Witness ==
    /\ call.op = "dec_counter"
    /\ call.id \in DOMAIN pre.owners
    /\ pre.owners[call.id] = "alice.testnet"
    /\ call.predecessor_account_id = "bob.testnet"
    /\ call.err = ERR_CALLER_NOT_OWNER

\* C2: an inc_counter or dec_counter call that fails its lookup or its
\* ownership check leaves the seed, the ids, every value and every owner as
\* they were before the call.
C2_FailedCallChangesNothing ==
    ( /\ call.op \in Mutators
      /\ call.err \in {ERR_COUNTER_NOT_FOUND, ERR_CALLER_NOT_OWNER} )
    => /\ seed = pre.seed
       /\ counters = pre.counters
       /\ owners = pre.owners

\* A failed ownership check on a registry that holds counters and has been
\* reseeded before.
C2_Witness ==
    /\ call.op = "inc_counter"
    /\ call.err = ERR_CALLER_NOT_OWNER
    /\ Len(history) >= 2
    /\ seed = pre.seed
    /\ DOMAIN counters # {}

\* C3: a second contract that is given the same calls with the same caller,
\* weak seed and block index (and other values in every field of the
\* context that the contract does not read) returns what the first returns
\* and holds the same seed, values and owners after every call.
C3_Determinism ==
    /\ replica.st = Contract
    /\ replica.err = call.err
    /\ replica.val = call.val

\* Both contracts went through new, create_counter and a successful
\* inc_counter.
C3_Witness ==
    /\ Succeeded("inc_counter")
    /\ Len(history) = 3
    /\ history[2].op = "create_counter"
    /\ replica.st = Contract

\* C4: the identifiers returned by distinct create_counter calls differ, the
\* registry holds one record per create_counter call, and each call added
\* one record under an identifier that was not stored before.
C4_Uniqueness ==
    /\ \A i, j \in Creates : i # j => history[i].id # history[j].id
    /\ Cardinality(DOMAIN counters) = Cardinality(Creates)
    /\ Succeeded("create_counter") =>
          /\ call.val \notin DOMAIN pre.counters
          /\ Cardinality(DOMAIN counters) = Cardinality(DOMAIN pre.counters) + 1

\* Two create_counter calls by the same caller in the same block (the same
\* weak seed and round counter) returned different identifiers.
C4_Witness ==
    /\ Len(history) = 3
    /\ history[2].op = "create_counter"
    /\ history[3].op = "create_counter"
    /\ history[2].predecessor_account_id = history[3].predecessor_account_id
    /\ history[2].block_index = history[3].block_index
    /\ history[2].random_seed = history[3].random_seed
    /\ history[1].random_seed = history[2].random_seed
    /\ history[2].id # history[3].id
    /\ Cardinality(DOMAIN counters) = 2

\* after = before + d for a d in 0..255, as mathematical integers.
Raised(before, after) ==
    /\ after >= before
    /\ (before > MaxI32 - RangeEnd \/ after < before + RangeEnd)

\* after = before + d - 2^32 for a d in 0..255: the sum wrapped around.
RaisedAround(before, after) ==
    /\ before > MaxI32 - RangeEnd
    /\ after < MinI32 + RangeEnd
    /\ (after - MinI32) + (MaxI32 - before) + 1 < RangeEnd

\* after = before - d for a d in 0..255, as mathematical integers.
Lowered(before, after) ==
    /\ after <= before
    /\ (before < MinI32 + RangeEnd \/ after > before - RangeEnd)

\* after = before - d + 2^32 for a d in 0..255.
LoweredAround(before, after) ==
    /\ before < MinI32 + RangeEnd
    /\ after > MaxI32 - RangeEnd
    /\ (before - MinI32) + (MaxI32 - after) + 1 < RangeEnd

\* C5: a successful inc_counter raises the value by 0..255 and a successful
\* dec_counter lowers it by 0..255, as mathematical integers, from every
\* starting value of the i32 range.
C5_MathematicalRange ==
    /\ Succeeded("inc_counter") =>
          Raised(pre.counters[call.id], counters[call.id])
    /\ Succeeded("dec_counter") =>
          Lowered(pre.counters[call.id], counters[call.id])

\* What the code does at the ends of the range (C5): the value after a
\* successful inc_counter is value + d, and after a successful dec_counter
\* value - d, for a d in 0..255, reduced modulo 2^32 into the i32 range; the
\* reduction changes the result only in a build without overflow checks.
C5_RangeModulo ==
    /\ Succeeded("inc_counter") =>
          \/ Raised(pre.counters[call.id], counters[call.id])
          \/ /\ ~overflow_checks
             /\ RaisedAround(pre.counters[call.id], counters[call.id])
    /\ Succeeded("dec_counter") =>
          \/ Lowered(pre.counters[call.id], counters[call.id])
          \/ /\ ~overflow_checks
             /\ LoweredAround(pre.counters[call.id], counters[call.id])

\* An inc_counter on a counter within 255 of i32::MAX succeeded and wrapped.
C5_Wrapped ==
    /\ Succeeded("inc_counter")
    /\ pre.counters[call.id] > MaxI32 - RangeEnd
    /\ RaisedAround(pre.counters[call.id], counters[call.id])

\* C6: right after create_counter by caller c returned id, get_counter(id)
\* is the i32 drawn in that call and get_owner(id) is c; and a created
\* counter on which no inc_counter or dec_counter has succeeded since still
\* has the value and the owner of its creation.
C6_LookupConsistency ==
    /\ Succeeded("create_counter") =>
          /\ get_counter(Contract, call.val) =
                Ok(Contract, gen(fill(from_seed(seed)).rng).val)
          /\ get_owner(Contract, call.val) =
                Ok(Contract, call.predecessor_account_id)
    /\ \A i \in Creates :
          (\A j \in (i + 1)..Len(history) : history[j].id # history[i].id)
          => /\ get_counter(Contract, history[i].id).val = history[i].value
             /\ get_owner(Contract, history[i].id).val =
                   history[i].predecessor_account_id

\* get_counter returns the initial value of the first counter after a second
\* counter has been created.
C6_Witness ==
    /\ Succeeded("get_counter")
    /\ Len(history) = 3
    /\ history[2].op = "create_counter"
    /\ history[3].op = "create_counter"
    /\ call.id = history[2].id
    /\ call.val = history[2].value

\* C7: a record, once stored with its owner, is still stored with that
\* owner after every call: each call keeps every record it found and its
\* owner, and every identifier ever returned is stored with the caller of
\* its create_counter as owner.
C7_OwnerImmutable ==
    /\ \A id \in DOMAIN pre.owners :
          /\ id \in DOMAIN owners
          /\ id \in DOMAIN counters
          /\ owners[id] = pre.owners[id]
    /\ \A i \in Creates :
          /\ history[i].id \in DOMAIN owners
          /\ owners[history[i].id] = history[i].predecessor_account_id

\* alice.testnet's counter is still hers after bob.testnet created one and
\* tried to change hers.
C7_Witness ==
    /\ Len(history) = 3
    /\ history[2].op = "create_counter"
    /\ history[2].predecessor_account_id = "alice.testnet"
    /\ history[3].op = "create_counter"
    /\ history[3].predecessor_account_id = "bob.testnet"
    /\ call.op = "inc_counter"
    /\ call.predecessor_account_id = "bob.testnet"
    /\ call.id = history[2].id
    /\ owners[history[2].id] = "alice.testnet"

\* C8: on an identifier that no create_counter has returned, get_counter,
\* get_owner, inc_counter and dec_counter of a constructed contract fail
\* with ERR_COUNTER_NOT_FOUND, whoever calls.
C8_NotFound ==
    ( /\ call.op \in Views \cup Mutators
      /\ pre.initialized
      /\ call.id \notin CreatedIds )
    => call.err = ERR_COUNTER_NOT_FOUND

\* inc_counter on an identifier that another run returns, on a registry that
\* holds a counter of the caller.
C8_Witness ==
    /\ call.op = "inc_counter"
    /\ call.id = TestId
    /\ TestId \notin CreatedIds
    /\ \E id \in DOMAIN owners : owners[id] = call.predecessor_account_id
    /\ call.err = ERR_COUNTER_NOT_FOUND

\* C9: new succeeds on a contract without state and stores the hash of the
\* weak seed; on a contract with state it fails with the already-initialized
\* panic and changes neither the seed nor the records.
C9_SingleInitialization ==
    call.op = "new" =>
        IF pre.initialized
        THEN call.err = ERR_ALREADY_INITIALIZED /\ Contract = pre
        ELSE /\ call.err = ""
             /\ initialized
             /\ seed = sha256(call.random_seed)
             /\ counters = <<>>
             /\ owners = <<>>

\* A second new, with another weak seed, on a registry that holds a counter.
C9_Witness ==
    /\ call.op = "new"
    /\ call.err = ERR_ALREADY_INITIALIZED
    /\ DOMAIN counters # {}
    /\ call.random_seed # history[1].random_seed

\* The seed after the first n calls of the history.
RECURSIVE Chain(_)
Chain(n) ==
    IF n = 1 THEN sha256(history[1].random_seed)
    ELSE sha256(Chain(n - 1) \o history[n].random_seed
                  \o to_be_bytes(history[n].block_index)
                  \o as_bytes(history[n].predecessor_account_id))

\* C10: a successful create_counter, inc_counter or dec_counter replaces the
\* seed by Hash(old seed, weak seed, big-endian round counter, caller
\* bytes), in that order; so the seed is the chain of these hashes over the
\* successful calls, started from the hash of the weak seed of new.
C10_ReseedStep ==
    /\ ( /\ call.op \in {"create_counter"} \cup Mutators
         /\ call.err = "" )
       => seed = sha256(pre.seed \o call.random_seed
                          \o to_be_bytes(call.block_index)
                          \o as_bytes(call.predecessor_account_id))
    /\ initialized => seed = Chain(Len(history))

\* A create_counter in block 0 and a dec_counter in block 1.
C10_Witness ==
    /\ Succeeded("dec_counter")
    /\ Len(history) = 3
    /\ history[2].op = "create_counter"
    /\ history[2].block_index # history[3].block_index

\* The context of a call of the history, as far as the contract reads it.
HistoryContext(e) ==
    [ TestContext EXCEPT !.predecessor_account_id = e.predecessor_account_id,
                         !.random_seed = e.random_seed,
                         !.block_index = e.block_index ]

\* The n-th call of the history, made on the contract state st.
Again(n, st) ==
    LET e == history[n]
        ctx == HistoryContext(e)
    IN  CASE e.op = "new" -> new(st, ctx)
          [] e.op = "create_counter" -> create_counter(st, ctx)
          [] e.op = "inc_counter" -> inc_counter(st, ctx, e.id, overflow_checks)
          [] e.op = "dec_counter" -> dec_counter(st, ctx, e.id, overflow_checks)
          [] OTHER -> get_counter(st, e.id)

\* The calls n.. of the history, made one after the other from state st
\* with no other call in between, return, give the identifiers and the
\* values the history records, and end in the state the contract is in.
RECURSIVE Replay(_, _)
Replay(n, st) ==
    IF n > Len(history) THEN st = Contract
    ELSE LET r == Again(n, st)
         IN  /\ r.err = ""
             /\ history[n].op = "create_counter" => r.val = history[n].id
             /\ history[n].op # "new" =>
                   r.st.counters[history[n].id] = history[n].value
             /\ Replay(n + 1, r.st)

\* C11: get_counter and get_owner, returning or failing, leave the seed, the
\* ids, every value and every owner as they were; and the state-changing
\* calls made so far, made again on a fresh contract without any view call
\* (or failed call) in between, return the same identifiers and leave the
\* same values, owners and seed.
C11_ReadPurity ==
    /\ call.op \in Views =>
          /\ seed = pre.seed
          /\ counters = pre.counters
          /\ owners = pre.owners
    /\ Replay(1, NoState)

\* A successful inc_counter that came right after a view call, on a registry
\* whose counter was created before.
C11_Witness ==
    /\ Succeeded("inc_counter")
    /\ call.after_read
    /\ Len(history) = 3
    /\ history[2].op = "create_counter"
    /\ Replay(1, NoState)

\* The last call got as far as ChaCha20Rng::from_seed: it is a &mut self
\* method that passed the state and ownership checks.
Drew ==
    /\ call.op \in {"create_counter"} \cup Mutators
    /\ call.err \notin {ERR_NOT_INITIALIZED, ERR_COUNTER_NOT_FOUND,
                        ERR_CALLER_NOT_OWNER}

\* The seed that keyed the stream of the last call.
Keyed == _add_entropy(pre, HistoryContext(call)).seed

\* What the last call drew is read from position zero of the stream keyed
\* by the seed now stored.
DrawnFromStoredSeed ==
    /\ Succeeded("create_counter") =>
          /\ call.val = simple_to_string(fill(from_seed(seed)).val)
          /\ counters[call.val] = gen(fill(from_seed(seed)).rng).val
    /\ Succeeded("inc_counter") =>
          counters[call.id] =
              add_i32(pre.counters[call.id], gen_range(from_seed(seed)).val,
                      overflow_checks).val
    /\ Succeeded("dec_counter") =>
          counters[call.id] =
              sub_i32(pre.counters[call.id], gen_range(from_seed(seed)).val,
                      overflow_checks).val

\* C12: every create_counter, inc_counter and dec_counter call that derives
\* a stream ends with the seed that keyed that stream stored, a seed other
\* than the one it started from, and what it drew is read from position
\* zero of the stream keyed by the stored seed.
C12_ReseedBeforeDraw ==
    /\ Drew => seed = Keyed /\ seed # pre.seed
    /\ DrawnFromStoredSeed

\* What the code does (C12): the calls that return end with the seed that
\* keyed their stream stored, and no two of them were keyed by the same
\* seed; a call that panics on overflow after its draw ends with the seed
\* it started from, so the next call in the same environment keys its
\* stream with the same seed again.
C12_CompletedCalls ==
    /\ (Drew /\ call.err = "") => seed = Keyed /\ seed # pre.seed
    /\ (Drew /\ call.err # "") =>
          /\ call.err \in {ERR_ADD_OVERFLOW, ERR_SUB_OVERFLOW}
          /\ overflow_checks
          /\ seed = pre.seed
          /\ Keyed # seed
    /\ DrawnFromStoredSeed
    /\ \A i, j \in 1..Len(history) : i # j => Chain(i) # Chain(j)

\* An inc_counter by the owner that drew its delta and panicked on overflow.
C12_Trapped ==
    /\ call.op = "inc_counter"
    /\ call.err = ERR_ADD_OVERFLOW
    /\ seed = pre.seed

\* The d in 0..2^32-1 with after = before + d modulo 2^32.
DeltaUp(before, after) ==
    IF after >= before
    THEN IF before < 0 /\ after > MaxI32 + before THEN MaxI32 ELSE after - before
    ELSE IF (after - MinI32) > MaxI32 - (MaxI32 - before) - 1 THEN MaxI32
    ELSE (after - MinI32) + (MaxI32 - before) + 1

\* The d in 0..2^32-1 with after = before - d modulo 2^32.
DeltaDown(before, after) == DeltaUp(after, before)

\* The owner's calls that can be made next.
OwnerCalls ==
    { [ctx |-> ctx, id |-> id] : ctx \in Contexts, id \in DOMAIN owners }

\* C13: from every state, with the same environment and the owner as
\* caller, inc_counter(id) leaves value + d and dec_counter(id) leaves
\* value - d, as mathematical integers, for the same d, and both leave the
\* same seed.
C13_Symmetry ==
    \A c \in OwnerCalls :
        owners[c.id] = c.ctx.predecessor_account_id =>
            LET up == inc_counter(Contract, c.ctx, c.id, overflow_checks)
                down == dec_counter(Contract, c.ctx, c.id, overflow_checks)
                v == counters[c.id]
            IN  /\ up.err = ""
                /\ down.err = ""
                /\ up.st.seed = down.st.seed
                /\ Raised(v, up.st.counters[c.id])
                /\ Lowered(v, down.st.counters[c.id])
                /\ up.st.counters[c.id] - v = v - down.st.counters[c.id]

\* What the code does (C13): both calls draw the same d in 0..255 from the
\* same reseeded seed; value + d and value - d are taken modulo 2^32, and in
\* a build with overflow checks the call whose result leaves the i32 range
\* panics and keeps the old seed while the other returns.
C13_SameDraw ==
    \A c \in OwnerCalls :
        owners[c.id] = c.ctx.predecessor_account_id =>
            LET up == inc_counter(Contract, c.ctx, c.id, overflow_checks)
                down == dec_counter(Contract, c.ctx, c.id, overflow_checks)
                v == counters[c.id]
                d == gen_range(from_seed(_add_entropy(Contract, c.ctx).seed)).val
            IN  /\ d \in 0..(RangeEnd - 1)
                /\ up.err = "" =>
                      /\ up.st.seed = _add_entropy(Contract, c.ctx).seed
                      /\ DeltaUp(v, up.st.counters[c.id]) = d
                /\ down.err = "" =>
                      /\ down.st.seed = _add_entropy(Contract, c.ctx).seed
                      /\ DeltaDown(v, down.st.counters[c.id]) = d
                /\ up.err # "" =>
                      /\ overflow_checks
                      /\ up = Panic(Contract, ERR_ADD_OVERFLOW)
                      /\ v > MaxI32 - d
                /\ down.err # "" =>
                      /\ overflow_checks
                      /\ down = Panic(Contract, ERR_SUB_OVERFLOW)
                      /\ v < MinI32 + d

\* A state from which the owner's inc_counter leaves value + d and the
\* owner's dec_counter value - d, for the same d > 0, with the same seed.
C13_BothReturn ==
    \E c \in OwnerCalls :
        /\ owners[c.id] = c.ctx.predecessor_account_id
        /\ counters[c.id] > MinI32 + RangeEnd
        /\ counters[c.id] < MaxI32 - RangeEnd
        /\ LET up == inc_counter(Contract, c.ctx, c.id, overflow_checks)
               down == dec_counter(Contract, c.ctx, c.id, overflow_checks)
           IN  /\ up.err = ""
               /\ down.err = ""
               /\ up.st.counters[c.id] > counters[c.id]
               /\ up.st.counters[c.id] - counters[c.id] =
                     counters[c.id] - down.st.counters[c.id]
               /\ up.st.seed = down.st.seed

\* The last call was an inc_counter or dec_counter by the owner whose
\* result, value + delta or value - delta as mathematical integers, lies
\* outside the i32 range.
Overflowing ==
    /\ call.op \in Mutators
    /\ Drew
    /\ LET d == gen_range(from_seed(Keyed)).val
           v == pre.counters[call.id]
       IN  \/ call.op = "inc_counter" /\ v > MaxI32 - d
           \/ call.op = "dec_counter" /\ v < MinI32 + d

\* C14: an inc_counter or dec_counter by the owner whose result leaves the
\* i32 range either fails and leaves the seed, the values and the owners as
\* they were, or returns with the seed replaced and the value changed; it
\* never ends with a new seed and the old value.
C14_OverflowAtomicity ==
    Overflowing =>
        /\ \/ /\ call.err \in {ERR_ADD_OVERFLOW, ERR_SUB_OVERFLOW}
              /\ seed = pre.seed
              /\ counters = pre.counters
              /\ owners = pre.owners
           \/ /\ call.err = ""
              /\ seed = Keyed
              /\ counters[call.id] # pre.counters[call.id]
        /\ ~(seed # pre.seed /\ counters[call.id] = pre.counters[call.id])

\* A dec_counter by the owner on a counter within 255 of i32::MIN panicked
\* on overflow.
C14_Witness ==
    /\ Overflowing
    /\ call.op = "dec_counter"
    /\ call.err = ERR_SUB_OVERFLOW
    /\ pre.counters[call.id] < MinI32 + RangeEnd
    /\ seed = pre.seed

\* The i32 whose little-endian bytes are w.
I32(w) ==
    IF w[4] >= 128
    THEN (w[1] + 256 * w[2] + 65536 * w[3]) + 16777216 * (w[4] - 256)
    ELSE (w[1] + 256 * w[2] + 65536 * w[3]) + 16777216 * w[4]

\* C15: every stored value lies in -2^31..2^31-1: the initial value is a
\* whole 32 bit word of the stream (the one after the 16 bytes of the id)
\* read as a two's complement integer, so any value of the range and not
\* only 0..255, and a value changed by inc_counter or dec_counter is the
\* old value plus or minus a d in 0..255, brought back into the range.
C15_ValueRange ==
    /\ \A id \in DOMAIN counters :
          counters[id] >= MinI32 /\ counters[id] <= MaxI32
    /\ \A n \in 1..Len(history) :
          history[n].value >= MinI32 /\ history[n].value <= MaxI32
    /\ Succeeded("create_counter") =>
          counters[call.val] = I32(Word(seed, IdLen \div 4))
    /\ Succeeded("inc_counter") =>
          \/ Raised(pre.counters[call.id], counters[call.id])
          \/ RaisedAround(pre.counters[call.id], counters[call.id])
    /\ Succeeded("dec_counter") =>
          \/ Lowered(pre.counters[call.id], counters[call.id])
          \/ LoweredAround(pre.counters[call.id], counters[call.id])

\* A counter created with the value i32::MIN, far outside 0..255, and
\* lowered past the end of the range by dec_counter.
C15_Witness ==
    /\ Succeeded("dec_counter")
    /\ Len(history) = 3
    /\ history[2].op = "create_counter"
    /\ history[2].value = MinI32
    /\ history[2].id = call.id
    /\ counters[call.id] > MaxI32 - RangeEnd

C17_MapConsistency ==
    /\ DOMAIN counters = DOMAIN owners
    /\ \A id \in Ids :
          (get_counter(Contract, id).err = "") = (get_owner(Contract, id).err = "")
    /\ ( /\ call.op \in Mutators
         /\ call.id \in DOMAIN pre.owners )
       => call.err # ERR_COUNTER_NOT_FOUND

\* get_owner returned on a registry of two counters, where get_counter
\* returns for the same id and both fail for another.
C17_Witness ==
    /\ Succeeded("get_owner")
    /\ Cardinality(DOMAIN owners) = 2
    /\ get_counter(Contract, call.id).err = ""
    /\ get_counter(Contract, NonexistentId).err = ERR_COUNTER_NOT_FOUND
    /\ get_owner(Contract, NonexistentId).err = ERR_COUNTER_NOT_FOUND

====
